---------------------------- MODULE Spec2Model ----------------------------
(***************************************************************************)
(* Model of the react-native-voice-vosk native modules: the iOS module     *)
(* (ios/VoiceVosk.mm) and the Android module (VoiceVoskModule.kt).         *)
(* The module instance's fields are the variables; each exported method    *)
(* is split into the part that runs on the caller's thread and the block   *)
(* it hands to the serial worker (processingQueue / executor); listener    *)
(* callbacks and event blocks run on the main queue.                       *)
(***************************************************************************)
EXTENDS Integers, Sequences, FiniteSets, TLC

VARIABLES
  platform,            \* "ios" or "android": which native module is running
  model,               \* Model handle, 0 = NULL
  recognizer,          \* Recognizer handle, 0 = NULL
  liveModels,          \* native Model handles allocated and not freed
  liveRecs,            \* native Recognizer handles allocated and not freed
  isModelInitialized,
  isListening,
  sampleRate,
  audioEngine,         \* iOS: "nil", "created" (tap installed, not started), "running", "paused"
  speechService,       \* Android: "null", "running", "paused", "expired" (timed out)
  svcRecognizer,       \* Android: the Recognizer the SpeechService was built with
  speechStreamService, \* Android: "null", "running", "finished"
  streamRecognizer,    \* Android: the Recognizer the SpeechStreamService was built with
  speechStartDetected,
  lastPartialResult,
  workQ,               \* blocks waiting on the serial worker
  mainQ,               \* blocks waiting on the main queue / main handler
  unpacking,           \* Android: asset unpack tasks in flight
  events,              \* events sent to the host, oldest first
  settled,             \* the last two promises settled, older first: [op, code]
  settledCount,        \* how many times a promise has been resolved or rejected
  releaseCalled,       \* releaseModel was called and no initModel has succeeded since
  lastTransition,      \* outcome of the last session transition the worker completed
  everInit,            \* some initModel has succeeded
  issued,              \* commands issued so far
  engineOut,           \* what the decoder has answered so far: [kind, text, rec]
  flushed,             \* live Recognizers on which the final result has been fetched
  blockLog,            \* what a releaseModel or startListening block did, in order, kept until the next block starts
  recordPermission,    \* what the permission query answered startListening last
  isPaused,            \* the last setPause that succeeded on this session asked to pause
  session,             \* number of sessions startListening has started
  handledSession,      \* session of the last partial block the main queue has run
  releaseDone,         \* a releaseModel block has run and no initModel block has got past its path check since
  stream,              \* detector check: the partial texts the engine will report
  pos                  \* detector check: how many of them it has reported

vars == <<platform, model, recognizer, liveModels, liveRecs,
          isModelInitialized, isListening, sampleRate, audioEngine, speechService,
          svcRecognizer, speechStreamService, streamRecognizer,
          speechStartDetected, lastPartialResult, workQ, mainQ, unpacking,
          events, settled, settledCount, releaseCalled, lastTransition, everInit, issued,
          engineOut, flushed, blockLog, recordPermission, isPaused, session, handledSession,
          releaseDone, stream, pos>>

(* ------------------------------- bounds -------------------------------- *)
MaxCmds == 3
MaxFrames == 1
MaxSessionCmds == 3
MaxSessionFrames == 2
MaxStream == 4
MaxConfigCmds == 3
MaxErrors == 1

(* ------------------------------- strings ------------------------------- *)
\* A string is a sequence of characters; " " is the whitespace character.
Empty == <<>>
Space == <<" ">>
Yes == <<"y", "e", "s">>
Hel == <<"h", "e", "l">>
Hello == <<"h", "e", "l", "l", "o">>
HelloWorld == <<"h", "e", "l", "l", "o", " ", "w", "o", "r", "l", "d">>
Null == <<"<null>">>

Texts == {Empty, Yes}

\* NSString length (nil.length is 0)
length(s) == IF s = Null THEN 0 ELSE Len(s)

\* Kotlin String.isBlank / isNotBlank
isBlank(s) == \A i \in 1..Len(s) : s[i] = " "
isNotBlank(s) == ~isBlank(s)

\* What the decoding engine returns: a JSON object with one key.
PartialJSON(t) == <<"{", "partial", ":">> \o t \o <<"}">>
ResultJSON(t) == <<"{", "text", ":">> \o t \o <<"}">>

\* parseJSONString followed by parsedResult[key] ?: @""
parseJSONString(json, key) ==
  IF Len(json) >= 4 /\ json[1] = "{" /\ json[2] = key /\ json[3] = ":" /\ json[Len(json)] = "}"
  THEN SubSeq(json, 4, Len(json) - 1)
  ELSE Empty


(* --------------------------- state as a record -------------------------- *)
\* The fields a handler can read and write, gathered so that the calls a
\* handler makes compose as in the source.
Cur ==
  [model |-> model, recognizer |-> recognizer, liveModels |-> liveModels,
   liveRecs |-> liveRecs,
   isModelInitialized |-> isModelInitialized, isListening |-> isListening,
   sampleRate |-> sampleRate,
   audioEngine |-> audioEngine, speechService |-> speechService,
   svcRecognizer |-> svcRecognizer, speechStreamService |-> speechStreamService,
   streamRecognizer |-> streamRecognizer,
   speechStartDetected |-> speechStartDetected,
   lastPartialResult |-> lastPartialResult, workQ |-> workQ, mainQ |-> mainQ,
   unpacking |-> unpacking, events |-> events, settled |-> settled,
   settledCount |-> settledCount,
   releaseCalled |-> releaseCalled,
   lastTransition |-> lastTransition, everInit |-> everInit, issued |-> issued,
   engineOut |-> engineOut, flushed |-> flushed, blockLog |-> blockLog,
   isPaused |-> isPaused, session |-> session,
   handledSession |-> handledSession, releaseDone |-> releaseDone]

Commit(r) ==
  /\ model' = r.model
  /\ recognizer' = r.recognizer
  /\ liveModels' = r.liveModels
  /\ liveRecs' = r.liveRecs
  /\ isModelInitialized' = r.isModelInitialized
  /\ isListening' = r.isListening
  /\ sampleRate' = r.sampleRate
  /\ audioEngine' = r.audioEngine
  /\ speechService' = r.speechService
  /\ svcRecognizer' = r.svcRecognizer
  /\ speechStreamService' = r.speechStreamService
  /\ streamRecognizer' = r.streamRecognizer
  /\ speechStartDetected' = r.speechStartDetected
  /\ lastPartialResult' = r.lastPartialResult
  /\ workQ' = r.workQ
  /\ mainQ' = r.mainQ
  /\ unpacking' = r.unpacking
  /\ events' = r.events
  /\ settled' = r.settled
  /\ settledCount' = r.settledCount
  /\ releaseCalled' = r.releaseCalled
  /\ lastTransition' = r.lastTransition
  /\ everInit' = r.everInit
  /\ issued' = r.issued
  /\ engineOut' = r.engineOut
  /\ flushed' = r.flushed
  /\ blockLog' = r.blockLog
  /\ isPaused' = r.isPaused
  /\ session' = r.session
  /\ handledSession' = r.handledSession
  /\ releaseDone' = r.releaseDone

Step(r) == Commit(r) /\ UNCHANGED <<platform, recordPermission, stream, pos>>

\* a step in which the permission query answers granted
StepAsking(r, granted) ==
  Commit(r) /\ recordPermission' = granted /\ UNCHANGED <<platform, stream, pos>>

(* ------------------------------- helpers -------------------------------- *)
\* resolve(...) / reject(code, ...) of a command's promise
settle(r, op, code) ==
  [r EXCEPT !.settled = IF Len(@) = 0 THEN <<[op |-> op, code |-> code]>>
                       ELSE <<@[Len(@)], [op |-> op, code |-> code]>>,
            !.settledCount = @ + 1]

\* sendEventWithName:body: / sendEvent(eventName, params)
sendEvent(r, name, text) ==
  [r EXCEPT !.events = Append(@, [name |-> name, text |-> text])]

\* dispatch_async(dispatch_get_main_queue(), ...) / mainHandler.post(...)
postMain(r, kind, arg) ==
  [r EXCEPT !.mainQ = Append(@, [kind |-> kind, arg |-> arg, sess |-> r.session])]

\* vosk_recognizer_final_result / Recognizer.getFinalResult()
finalResult(r, rec, t) ==
  [r EXCEPT !.engineOut = Append(@, [kind |-> "final", text |-> t, rec |-> rec]),
            !.flushed = @ \cup {rec}]

\* dispatch_async(_processingQueue, ...) / executor.execute { ... }
enqueue(r, op, arg) ==
  [r EXCEPT !.workQ = Append(@, [op |-> op, arg |-> arg])]

\* no releaseModel or startListening block is being followed
NoLog == <<"none">>

\* the worker takes its next block
dequeue(r) == [r EXCEPT !.workQ = Tail(@), !.blockLog = NoLog]

did(r, what) ==
  IF r.blockLog = NoLog THEN r ELSE [r EXCEPT !.blockLog = Append(@, what)]

\* Native handles are numbered; a new handle takes the smallest number that
\* is neither allocated nor still referenced by somebody.
Referenced(r) ==
  {r.model, r.recognizer, r.svcRecognizer, r.streamRecognizer}
    \cup {r.mainQ[i].arg : i \in {j \in 1..Len(r.mainQ) : r.mainQ[j].kind = "unpackComplete"}}

fresh(r) ==
  CHOOSE h \in 1..(Cardinality(Referenced(r) \cup r.liveModels \cup r.liveRecs) + 1) :
    /\ h \notin Referenced(r) \cup r.liveModels \cup r.liveRecs
    /\ \A k \in 1..(h - 1) : k \in Referenced(r) \cup r.liveModels \cup r.liveRecs

\* vosk_model_new / Model(path)
newModel(r) == [r EXCEPT !.liveModels = @ \cup {fresh(r)}]

\* vosk_recognizer_new / Recognizer(model, sampleRate)
newRecognizer(r) == [r EXCEPT !.liveRecs = @ \cup {fresh(r)}]

\* vosk_model_free / Model.close()
freeModel(r, h) == did([r EXCEPT !.liveModels = @ \ {h}], "model")

\* vosk_recognizer_free / Recognizer.close()
freeRecognizer(r, h) ==
  did([r EXCEPT !.liveRecs = @ \ {h}, !.flushed = @ \ {h}], "recognizer")

(* ------------------------- speech boundary detector --------------------- *)
detectSpeechStartIOS(r, partialResult) ==
  IF ~r.speechStartDetected /\ length(partialResult) > 0
  THEN sendEvent([r EXCEPT !.speechStartDetected = TRUE], "onSpeechStart", Null)
  ELSE r

detectSpeechEndIOS(r, partialResult) ==
  LET r1 == IF r.speechStartDetected /\ length(partialResult) = 0
               /\ length(r.lastPartialResult) > 0
            THEN sendEvent([r EXCEPT !.speechStartDetected = FALSE], "onSpeechEnd", Null)
            ELSE r
  IN [r1 EXCEPT !.lastPartialResult = partialResult]

detectSpeechStartAndroid(r, partialResult) ==
  IF ~r.speechStartDetected /\ isNotBlank(partialResult)
  THEN sendEvent([r EXCEPT !.speechStartDetected = TRUE], "onSpeechStart", Null)
  ELSE r

detectSpeechEndAndroid(r, partialResult) ==
  LET r1 == IF r.speechStartDetected /\ isBlank(partialResult)
               /\ r.lastPartialResult # Null /\ isNotBlank(r.lastPartialResult)
            THEN sendEvent([r EXCEPT !.speechStartDetected = FALSE], "onSpeechEnd", Null)
            ELSE r
  IN [r1 EXCEPT !.lastPartialResult = partialResult]

(* ------------------------------ private methods ------------------------- *)
\* cleanupModel that frees the handles and leaves isModelInitialized as it
\* was: C2 tells it from the method below
cleanupModelKeepFlag(r) ==
  LET r1 == IF r.recognizer # 0
            THEN [freeRecognizer(r, r.recognizer) EXCEPT !.recognizer = 0]
            ELSE r
  IN IF r1.model # 0
     THEN [freeModel(r1, r1.model) EXCEPT !.model = 0]
     ELSE r1

\* cleanupModel that frees the Model before the Recognizer built on it: C30
\* tells it from the method below
cleanupModelModelFirst(r) ==
  LET r1 == IF r.model # 0
            THEN [freeModel(r, r.model) EXCEPT !.model = 0]
            ELSE r
      r2 == IF r1.recognizer # 0
            THEN [freeRecognizer(r1, r1.recognizer) EXCEPT !.recognizer = 0]
            ELSE r1
  IN did([r2 EXCEPT !.isModelInitialized = FALSE], "flag")

cleanupModel(r) ==
  LET r1 == IF r.recognizer # 0
            THEN [freeRecognizer(r, r.recognizer) EXCEPT !.recognizer = 0]
            ELSE r
      r2 == IF r1.model # 0
            THEN [freeModel(r1, r1.model) EXCEPT !.model = 0]
            ELSE r1
  IN did([r2 EXCEPT !.isModelInitialized = FALSE], "flag")

stopListeningInternalIOS(r) ==
  LET r1 == IF r.audioEngine # "nil" THEN [r EXCEPT !.audioEngine = "nil"] ELSE r
  IN did([r1 EXCEPT !.isListening = FALSE, !.speechStartDetected = FALSE,
                    !.lastPartialResult = Null, !.isPaused = FALSE], "session")

\* SpeechService.stop(): the recognizer thread is joined; fin is what the
\* thread hands to onFinalResult when it ends unpaused (Null: nothing).
serviceStop(r, fin) ==
  IF r.speechService = "running" /\ fin # Null
  THEN postMain(finalResult(r, r.svcRecognizer, fin), "onFinalResult", ResultJSON(fin))
  ELSE r

stopListeningInternalAndroid(r, fin) ==
  LET r1 == IF r.speechService # "null"
            THEN [serviceStop(r, fin) EXCEPT !.speechService = "null", !.svcRecognizer = 0]
            ELSE r
  IN did([r1 EXCEPT !.isListening = FALSE, !.speechStartDetected = FALSE,
                    !.lastPartialResult = Null, !.isPaused = FALSE], "session")

stopListeningInternal(r, fin) ==
  IF platform = "ios" THEN stopListeningInternalIOS(r)
  ELSE stopListeningInternalAndroid(r, fin)


(* ------------------------------ initial state --------------------------- *)
\* _sampleRate = 16000.0f / private var sampleRate = 16000.0f
DefaultSampleRate == 16000

Init ==
  /\ platform \in {"ios", "android"}
  /\ model = 0
  /\ recognizer = 0
  /\ liveModels = {}
  /\ liveRecs = {}
  /\ isModelInitialized = FALSE
  /\ isListening = FALSE
  /\ sampleRate = DefaultSampleRate
  /\ audioEngine = "nil"
  /\ speechService = "null"
  /\ svcRecognizer = 0
  /\ speechStreamService = "null"
  /\ streamRecognizer = 0
  /\ speechStartDetected = FALSE
  /\ lastPartialResult = Null
  /\ workQ = <<>>
  /\ mainQ = <<>>
  /\ unpacking = 0
  /\ events = <<>>
  /\ settled = <<>>
  /\ settledCount = 0
  /\ releaseCalled = FALSE
  /\ lastTransition = "none"
  /\ everInit = FALSE
  /\ issued = 0
  /\ engineOut = <<>>
  /\ flushed = {}
  /\ blockLog = NoLog
  /\ recordPermission = TRUE
  /\ isPaused = FALSE
  /\ session = 0
  /\ handledSession = 0
  /\ releaseDone = FALSE
  /\ stream = <<>>
  /\ pos = 0

(* --------------------------------- initModel ---------------------------- *)
ModelPaths == {Empty, <<"m">>}

\* config.sampleRate: NoRate stands for a config without the key
NoRate == 0
NarrowbandRate == 8000
Configs(rates) == [modelPath : ModelPaths, sampleRate : rates]

\* if (config[@"sampleRate"]) self.sampleRate = ...
setSampleRate(r, config) ==
  IF config.sampleRate # NoRate THEN [r EXCEPT !.sampleRate = config.sampleRate] ELSE r

\* initModel that frees the held handles before it looks at modelPath: C5
\* tells it from the block below
initModelIOSCleanupFirst(r, config, out) ==
  LET r1 == [cleanupModel(setSampleRate(r, config)) EXCEPT !.releaseDone = FALSE] IN
  IF Len(config.modelPath) = 0
  THEN settle(r1, "initModel", "INVALID_MODEL_PATH")
  ELSE
    CASE out = "notFound" -> settle(r1, "initModel", "MODEL_NOT_FOUND")
      [] out = "loadFailed" -> settle(r1, "initModel", "MODEL_LOAD_FAILED")
      [] out = "recognizerFailed" ->
           LET r2 == [newModel(r1) EXCEPT !.model = fresh(r1)]
               r3 == [freeModel(r2, r2.model) EXCEPT !.model = 0]
           IN settle(r3, "initModel", "RECOGNIZER_INIT_FAILED")
      [] OTHER ->
           LET r2 == [newModel(r1) EXCEPT !.model = fresh(r1)]
               r3 == [newRecognizer(r2) EXCEPT !.recognizer = fresh(r2)]
           IN settle([r3 EXCEPT !.isModelInitialized = TRUE, !.everInit = TRUE,
                      !.releaseCalled = FALSE],
                     "initModel", "OK")

\* the block initModel hands to processingQueue; out is what the file system
\* and the engine answer
initModelIOS(r, config, out) ==
  IF Len(config.modelPath) = 0
  THEN settle(r, "initModel", "INVALID_MODEL_PATH")
  ELSE LET r1 == [cleanupModel(setSampleRate(r, config)) EXCEPT !.releaseDone = FALSE] IN
    CASE out = "notFound" -> settle(r1, "initModel", "MODEL_NOT_FOUND")
      [] out = "loadFailed" -> settle(r1, "initModel", "MODEL_LOAD_FAILED")
      [] out = "recognizerFailed" ->
           LET r2 == [newModel(r1) EXCEPT !.model = fresh(r1)]
               r3 == [freeModel(r2, r2.model) EXCEPT !.model = 0]
           IN settle(r3, "initModel", "RECOGNIZER_INIT_FAILED")
      [] OTHER ->
           LET r2 == [newModel(r1) EXCEPT !.model = fresh(r1)]
               r3 == [newRecognizer(r2) EXCEPT !.recognizer = fresh(r2)]
           IN settle([r3 EXCEPT !.isModelInitialized = TRUE, !.everInit = TRUE,
                      !.releaseCalled = FALSE],
                     "initModel", "OK")

\* the block initModel hands to the executor
initModelAndroid(r, config, out) ==
  LET r0 == setSampleRate(r, config) IN
  IF Len(config.modelPath) = 0
  THEN settle(r0, "initModel", "INVALID_MODEL_PATH")
  ELSE
    LET r1 == IF r0.model # 0 THEN freeModel(r0, r0.model) ELSE r0
        r2 == [r1 EXCEPT !.model = 0]
        r3 == IF r2.recognizer # 0 THEN freeRecognizer(r2, r2.recognizer) ELSE r2
        r4 == [r3 EXCEPT !.recognizer = 0, !.isModelInitialized = FALSE,
                         !.releaseDone = FALSE]
    IN
    CASE out = "notFound" ->
           \* Model(modelPath) throws IOException: unpack from assets
           [r4 EXCEPT !.unpacking = @ + 1]
      [] out = "recognizerFailed" ->
           \* model is assigned, Recognizer(...) throws IOException
           LET r5 == [newModel(r4) EXCEPT !.model = fresh(r4)]
           IN [r5 EXCEPT !.unpacking = @ + 1]
      [] OTHER ->
           LET r5 == [newModel(r4) EXCEPT !.model = fresh(r4)]
               r6 == [newRecognizer(r5) EXCEPT !.recognizer = fresh(r5)]
           IN settle([r6 EXCEPT !.isModelInitialized = TRUE, !.everInit = TRUE,
                      !.releaseCalled = FALSE],
                     "initModel", "OK")

\* StorageService.unpack finishing on its own thread: it loads the unpacked
\* model and posts the complete callback, or posts the error callback
unpackFinish(r, ok) ==
  LET r1 == [r EXCEPT !.unpacking = @ - 1] IN
  IF ok THEN postMain(newModel(r1), "unpackComplete", fresh(r1))
  ELSE postMain(r1, "unpackError", 0)

\* the complete callback of StorageService.unpack
unpackComplete(r, unpackedModel, recOk) ==
  LET r1 == [r EXCEPT !.model = unpackedModel] IN
  IF recOk
  THEN LET r2 == [newRecognizer(r1) EXCEPT !.recognizer = fresh(r1)]
       IN settle([r2 EXCEPT !.isModelInitialized = TRUE, !.everInit = TRUE,
                      !.releaseCalled = FALSE],
                 "initModel", "OK")
  ELSE settle([r1 EXCEPT !.model = 0, !.recognizer = 0, !.isModelInitialized = FALSE],
              "initModel", "RECOGNIZER_INIT_FAILED")

\* the error callback of StorageService.unpack
unpackError(r) ==
  settle([r EXCEPT !.model = 0, !.recognizer = 0, !.isModelInitialized = FALSE],
         "initModel", "MODEL_LOAD_FAILED")

(* -------------------------------- releaseModel -------------------------- *)
releaseModelIOS(r) ==
  LET r1 == stopListeningInternalIOS([r EXCEPT !.blockLog = <<>>])
      r2 == cleanupModel(r1)
  IN did(settle([r2 EXCEPT !.lastTransition = "released", !.releaseDone = TRUE],
                "releaseModel", "OK"), "resolve")

releaseModelAndroid(r, fin) ==
  LET r1 == stopListeningInternalAndroid([r EXCEPT !.blockLog = <<>>], fin)
      r2 == IF r1.recognizer # 0
            THEN [freeRecognizer(r1, r1.recognizer) EXCEPT !.recognizer = 0]
            ELSE r1
      r3 == IF r2.model # 0
            THEN [freeModel(r2, r2.model) EXCEPT !.model = 0]
            ELSE r2
  IN did(settle([did([r3 EXCEPT !.isModelInitialized = FALSE], "flag") EXCEPT
                   !.lastTransition = "released", !.releaseDone = TRUE],
                "releaseModel", "OK"), "resolve")


(* ------------------------------- startListening ------------------------- *)
\* startListening without the isModelInitialized check: C7 tells it from
\* the method below
startListeningCheckNoModel(r, granted) ==
  IF ~granted
  THEN settle(r, "startListening", "PERMISSION_DENIED")
  ELSE enqueue(r, "startListening", Empty)

\* startListening asking for the permission before it looks at the model:
\* C18 tells it from the method below
startListeningCheckPermissionFirst(r, granted) ==
  IF ~granted
  THEN settle(r, "startListening", "PERMISSION_DENIED")
  ELSE IF ~r.isModelInitialized
  THEN settle(r, "startListening", "MODEL_NOT_INITIALIZED")
  ELSE enqueue(r, "startListening", Empty)

\* the part of startListening that runs on the caller's thread
startListeningCheck(r, granted) ==
  IF ~r.isModelInitialized
  THEN settle(r, "startListening", "MODEL_NOT_INITIALIZED")
  ELSE IF ~granted
  THEN settle(r, "startListening", "PERMISSION_DENIED")
  ELSE enqueue(r, "startListening", Empty)

\* startListening with isListening set before the engine is started, so
\* that a failed start leaves it true: C1 tells it from the block below
startListeningIOSFlagFirst(r, out) ==
  LET r1 == [stopListeningInternalIOS(r) EXCEPT !.isListening = TRUE] IN
  CASE out = "sessionError" ->
         settle([r1 EXCEPT !.lastTransition = "startFailed"],
                "startListening", "AUDIO_SESSION_ERROR")
    [] out = "engineError" ->
         settle([r1 EXCEPT !.audioEngine = "created", !.lastTransition = "startFailed"],
                "startListening", "AUDIO_ENGINE_ERROR")
    [] OTHER ->
         settle([r1 EXCEPT !.audioEngine = "running",
                           !.speechStartDetected = FALSE,
                           !.lastPartialResult = Null,
                           !.session = @ + 1,
                           !.lastTransition = "started"],
                "startListening", "OK")

\* startListening that sets the new engine up without stopping the session
\* before it: C31 tells it from the block below
startListeningIOSNoTeardown(r, out) ==
  LET r1 == [r EXCEPT !.blockLog = <<>>] IN
  CASE out = "sessionError" ->
         settle([r1 EXCEPT !.lastTransition = "startFailed"],
                "startListening", "AUDIO_SESSION_ERROR")
    [] out = "engineError" ->
         settle([did(r1, "capture") EXCEPT !.audioEngine = "created",
                                           !.lastTransition = "startFailed"],
                "startListening", "AUDIO_ENGINE_ERROR")
    [] OTHER ->
         settle([did(r1, "capture") EXCEPT !.audioEngine = "running",
                           !.speechStartDetected = FALSE,
                           !.lastPartialResult = Null,
                           !.isListening = TRUE,
                           !.session = @ + 1,
                           !.lastTransition = "started"],
                "startListening", "OK")

\* the block startListening hands to processingQueue
startListeningIOS(r, out) ==
  LET r1 == stopListeningInternalIOS([r EXCEPT !.blockLog = <<>>]) IN
  CASE out = "sessionError" ->
         settle([r1 EXCEPT !.lastTransition = "startFailed"],
                "startListening", "AUDIO_SESSION_ERROR")
    [] out = "engineError" ->
         \* the engine exists and its tap is installed, but it did not start
         settle([did(r1, "capture") EXCEPT !.audioEngine = "created",
                                           !.lastTransition = "startFailed"],
                "startListening", "AUDIO_ENGINE_ERROR")
    [] OTHER ->
         settle([did(r1, "capture") EXCEPT !.audioEngine = "running",
                           !.speechStartDetected = FALSE,
                           !.lastPartialResult = Null,
                           !.isListening = TRUE,
                           !.session = @ + 1,
                           !.lastTransition = "started"],
                "startListening", "OK")

\* the block startListening hands to the executor
startListeningAndroid(r, out, fin) ==
  LET r1 == stopListeningInternalAndroid([r EXCEPT !.blockLog = <<>>], fin) IN
  IF r1.recognizer = 0
  THEN settle([r1 EXCEPT !.lastTransition = "startFailed"],
              "startListening", "RECOGNIZER_NULL")
  ELSE IF out = "engineError"
  THEN settle([r1 EXCEPT !.lastTransition = "startFailed"],
              "startListening", "START_LISTENING_ERROR")
  ELSE settle([did(r1, "capture") EXCEPT !.speechService = "running",
                         !.svcRecognizer = r1.recognizer,
                         !.speechStartDetected = FALSE,
                         !.lastPartialResult = Null,
                         !.isListening = TRUE,
                         !.session = @ + 1,
                         !.lastTransition = "started"],
              "startListening", "OK")

(* -------------------------------- stopListening ------------------------- *)
\* stopListening that also frees the model handles: C15 tells it from the
\* block below
stopListeningBlockFreeing(r, fin) ==
  LET r1 == cleanupModel(stopListeningInternal(r, fin))
  IN settle([r1 EXCEPT !.lastTransition = "stopped"], "stopListening", "OK")

\* stopListening that tears the session down and leaves its promise
\* pending: C32 tells it from the block below
stopListeningBlockUnsettled(r, fin) ==
  LET r1 == stopListeningInternal(r, fin)
  IN [r1 EXCEPT !.lastTransition = "stopped"]

stopListeningBlock(r, fin) ==
  LET r1 == stopListeningInternal(r, fin)
  IN settle([r1 EXCEPT !.lastTransition = "stopped"], "stopListening", "OK")

(* ---------------------------------- setPause ---------------------------- *)
\* setPause that resolves a pause request and leaves the engine running:
\* C11 tells it from the block below
setPauseIOSKeepsRunning(r, paused, ok) ==
  IF r.audioEngine # "nil"
  THEN IF paused
       THEN settle([r EXCEPT !.isPaused = TRUE], "setPause", "OK")
       ELSE IF ok
            THEN settle([r EXCEPT !.audioEngine = "running", !.isPaused = FALSE],
                        "setPause", "OK")
            ELSE settle(r, "setPause", "PAUSE_ERROR")
  ELSE settle(r, "setPause", "SERVICE_NOT_ACTIVE")

\* the block setPause hands to processingQueue; ok: the engine restarts
setPauseIOS(r, paused, ok) ==
  IF r.audioEngine # "nil"
  THEN IF paused
       THEN settle([r EXCEPT !.audioEngine =
                               IF @ = "running" THEN "paused" ELSE @,
                             !.isPaused = TRUE],
                   "setPause", "OK")
       ELSE IF ok
            THEN settle([r EXCEPT !.audioEngine = "running", !.isPaused = FALSE],
                        "setPause", "OK")
            ELSE settle(r, "setPause", "PAUSE_ERROR")
  ELSE settle(r, "setPause", "SERVICE_NOT_ACTIVE")

\* setPause runs on the caller's thread
setPauseAndroid(r, paused) ==
  IF r.speechService # "null"
  THEN settle([r EXCEPT !.speechService = IF @ = "expired" THEN @
                                           ELSE IF paused THEN "paused" ELSE "running",
                        !.isPaused = paused],
              "setPause", "OK")
  ELSE settle(r, "setPause", "SERVICE_NOT_ACTIVE")

(* -------------------------------- recognizeFile ------------------------- *)
FilePaths == {<<"/nonexistent">>, <<"a.wav">>}
fileExists(filePath) == filePath = <<"a.wav">>

\* the part of recognizeFile that runs on the caller's thread
recognizeFileCheck(r, filePath) ==
  IF ~r.isModelInitialized
  THEN settle(r, "recognizeFile", "MODEL_NOT_INITIALIZED")
  ELSE enqueue(r, "recognizeFile", filePath)

handleFinalResult(r, result) == postMain(r, "final", result)

processFileBuffer(r, convOk, t) ==
  IF r.recognizer = 0 THEN r
  ELSE IF ~convOk THEN r
  ELSE handleFinalResult(finalResult(r, r.recognizer, t), ResultJSON(t))

\* recognizeFile without the fileExistsAtPath check: C6 tells it from the
\* block below
recognizeFileIOSNoExistsCheck(r, filePath, out, convOk, t) ==
  IF out = "invalidFile"
  THEN settle(r, "recognizeFile", "INVALID_FILE")
  ELSE IF out = "readError"
  THEN settle(r, "recognizeFile", "FILE_READ_ERROR")
  ELSE settle(processFileBuffer(r, convOk, t), "recognizeFile", "OK")

recognizeFileIOS(r, filePath, out, convOk, t) ==
  IF ~fileExists(filePath)
  THEN settle(r, "recognizeFile", "FILE_NOT_FOUND")
  ELSE IF out = "invalidFile"
  THEN settle(r, "recognizeFile", "INVALID_FILE")
  ELSE IF out = "readError"
  THEN settle(r, "recognizeFile", "FILE_READ_ERROR")
  ELSE settle(processFileBuffer(r, convOk, t), "recognizeFile", "OK")

\* SpeechStreamService.stop(): the stream thread is joined; fin is what it
\* hands to onFinalResult when it was still reading (Null: nothing)
streamStop(r, fin) ==
  IF r.speechStreamService = "running" /\ fin # Null
  THEN postMain(finalResult(r, r.streamRecognizer, fin), "onFinalResult", ResultJSON(fin))
  ELSE r

recognizeFileAndroid(r, filePath, out, fin) ==
  IF ~fileExists(filePath)
  THEN settle(r, "recognizeFile", "FILE_NOT_FOUND")
  ELSE
    LET r1 == IF r.speechStreamService # "null" THEN streamStop(r, fin) ELSE r
        r2 == [r1 EXCEPT !.speechStreamService = "null", !.streamRecognizer = 0]
    IN
    IF r2.recognizer = 0
    THEN settle(r2, "recognizeFile", "RECOGNIZER_NULL")
    ELSE IF out = "invalidFile"
    THEN settle(r2, "recognizeFile", "INVALID_FILE")
    ELSE settle([r2 EXCEPT !.speechStreamService = "running",
                           !.streamRecognizer = r2.recognizer],
                "recognizeFile", "OK")

stopFileRecognitionIOS(r) == settle(r, "stopFileRecognition", "OK")

stopFileRecognitionAndroid(r, fin) ==
  LET r1 == IF r.speechStreamService # "null" THEN streamStop(r, fin) ELSE r
  IN settle([r1 EXCEPT !.speechStreamService = "null", !.streamRecognizer = 0],
            "stopFileRecognition", "OK")

(* ------------------------------- audio thread --------------------------- *)
\* vosk_recognizer_accept_waveform followed by vosk_recognizer_result or
\* vosk_recognizer_partial_result, or vosk_recognizer_final_result: the answer
decode(r, rec, kind, t) ==
  [r EXCEPT !.engineOut = Append(@, [kind |-> kind, text |-> t, rec |-> rec])]

\* the chunks the decoder has been fed by the capture and stream threads
framesDecoded == Cardinality({i \in 1..Len(engineOut) : engineOut[i].kind # "final"})

handleResult(r, result) == postMain(r, "result", result)

handlePartialResult(r, result) == postMain(r, "partial", result)

\* the tap block ending the session when a conversion fails: C28 tells it
\* from the method below
processAudioBufferStopsOnFailure(r, convOk, boundary, t) ==
  IF r.recognizer = 0 THEN r
  ELSE IF ~convOk THEN sendEvent(stopListeningInternalIOS(r), "onError", Null)
  ELSE IF boundary
  THEN handleResult(decode(r, r.recognizer, "result", t), ResultJSON(t))
  ELSE handlePartialResult(decode(r, r.recognizer, "partial", t), PartialJSON(t))

\* the tap block taking the partial branch whatever accept_waveform
\* answered: C26 tells it from the method below
processAudioBufferAlwaysPartial(r, convOk, boundary, t) ==
  IF r.recognizer = 0 THEN r
  ELSE IF ~convOk THEN r
  ELSE handlePartialResult(decode(r, r.recognizer, IF boundary THEN "result" ELSE "partial", t),
                           PartialJSON(t))

\* the tap block: one captured buffer; boundary and t are what the engine
\* answers to vosk_recognizer_accept_waveform and to the fetch that follows
processAudioBuffer(r, convOk, boundary, t) ==
  IF r.recognizer = 0 THEN r
  ELSE IF ~convOk THEN r
  ELSE IF boundary
  THEN handleResult(decode(r, r.recognizer, "result", t), ResultJSON(t))
  ELSE handlePartialResult(decode(r, r.recognizer, "partial", t), PartialJSON(t))

\* one buffer read by the SpeechService recognizer thread
serviceFrame(r, boundary, t) ==
  IF r.speechService # "running" THEN r
  ELSE IF boundary
  THEN postMain(decode(r, r.svcRecognizer, "result", t), "onResult", ResultJSON(t))
  ELSE postMain(decode(r, r.svcRecognizer, "partial", t), "onPartialResult", PartialJSON(t))

\* the SpeechService recognizer thread running out of its timeout: it posts
\* onTimeout and ends.  startListening starts the service without a timeout,
\* so only SpecConfig, where the engine is allowed to report one, takes this
\* step.
serviceTimeout(r) ==
  postMain([r EXCEPT !.speechService = "expired"], "onTimeout", Empty)

\* the SpeechService recognizer thread reporting an exception to the listener
serviceError(r) == postMain(r, "onError", Empty)

\* one buffer read by the SpeechStreamService thread
streamFrame(r, boundary, t) ==
  IF boundary
  THEN postMain(decode(r, r.streamRecognizer, "result", t), "onResult", ResultJSON(t))
  ELSE postMain(decode(r, r.streamRecognizer, "partial", t), "onPartialResult", PartialJSON(t))

\* the SpeechStreamService thread reaching the end of the file
streamEnd(r, t) ==
  postMain([finalResult(r, r.streamRecognizer, t) EXCEPT !.speechStreamService = "finished"],
           "onFinalResult", ResultJSON(t))

(* ------------------------ blocks run on the main queue ------------------ *)
\* the block handleResult dispatches
handleResultBlock(r, result) ==
  sendEvent(r, "onResult", parseJSONString(result, "text"))

\* the block handleFinalResult dispatches
handleFinalResultBlock(r, result) ==
  sendEvent(r, "onFinalResult", parseJSONString(result, "text"))

\* the block handlePartialResult dispatches
handlePartialResultBlock(r, result) ==
  LET partial == parseJSONString(result, "partial")
      r1 == detectSpeechStartIOS(r, partial)
      r2 == detectSpeechEndIOS(r1, partial)
  IN sendEvent(r2, "onPartialResult", partial)

\* RecognitionListener implementation
onResult(r, hypothesis) == sendEvent(r, "onResult", hypothesis)

onFinalResult(r, hypothesis) ==
  [sendEvent(r, "onFinalResult", hypothesis) EXCEPT
     !.speechStreamService = "null", !.streamRecognizer = 0]

onTimeout(r) == sendEvent(r, "onTimeout", Null)

onError(r) == sendEvent(r, "onError", Null)

onPartialResult(r, hypothesis) ==
  LET r1 == detectSpeechStartAndroid(r, hypothesis)
      r2 == detectSpeechEndAndroid(r1, hypothesis)
  IN sendEvent(r2, "onPartialResult", hypothesis)


(* --------------------------------- actions ------------------------------ *)
\* what a stopped service thread may hand to onFinalResult
FinChoices == {Null, Yes}

CanIssue(maxCmds) == issued < maxCmds
Issuing == [Cur EXCEPT !.issued = @ + 1]
Front(op) == workQ # <<>> /\ Head(workQ).op = op
Main(kind) == mainQ # <<>> /\ Head(mainQ).kind = kind
popMain(r) == [r EXCEPT !.mainQ = Tail(@)]

\* ---- exported methods, caller's thread
CallInitModel(maxCmds, rates) ==
  /\ CanIssue(maxCmds)
  /\ \E config \in Configs(rates) : Step(enqueue(Issuing, "initModel", config))

CallReleaseModel(maxCmds) ==
  /\ CanIssue(maxCmds)
  /\ Step(enqueue([Issuing EXCEPT !.releaseCalled = TRUE], "releaseModel", Empty))

CallStartListening(maxCmds) ==
  /\ CanIssue(maxCmds)
  /\ \E granted \in BOOLEAN :
       \* [session recordPermission] is asked only once the model check passed
       IF isModelInitialized
       THEN StepAsking(startListeningCheck(Issuing, granted), granted)
       ELSE Step(startListeningCheck(Issuing, granted))

CallStopListening(maxCmds) ==
  /\ CanIssue(maxCmds)
  /\ Step(enqueue(Issuing, "stopListening", Empty))

CallSetPause(maxCmds) ==
  /\ CanIssue(maxCmds)
  /\ \E paused \in BOOLEAN :
       IF platform = "ios"
       THEN Step(enqueue(Issuing, "setPause", paused))
       ELSE Step(setPauseAndroid(Issuing, paused))

CallRecognizeFile(maxCmds) ==
  /\ CanIssue(maxCmds)
  /\ \E filePath \in FilePaths : Step(recognizeFileCheck(Issuing, filePath))

CallStopFileRecognition(maxCmds) ==
  /\ CanIssue(maxCmds)
  /\ Step(enqueue(Issuing, "stopFileRecognition", Empty))

\* ---- blocks on the serial worker
InitOutcomes == {"ok", "notFound", "loadFailed", "recognizerFailed"}

RunInitModel ==
  /\ Front("initModel")
  /\ \E out \in InitOutcomes :
       /\ platform = "android" => out # "loadFailed"
       /\ Step(IF platform = "ios"
               THEN initModelIOS(dequeue(Cur), Head(workQ).arg, out)
               ELSE initModelAndroid(dequeue(Cur), Head(workQ).arg, out))

RunReleaseModel ==
  /\ Front("releaseModel")
  /\ \E fin \in FinChoices :
       Step(IF platform = "ios" THEN releaseModelIOS(dequeue(Cur))
            ELSE releaseModelAndroid(dequeue(Cur), fin))

StartOutcomes == {"ok", "sessionError", "engineError"}

RunStartListening ==
  /\ Front("startListening")
  /\ \E out \in StartOutcomes, fin \in FinChoices :
       /\ platform = "android" => out # "sessionError"
       /\ Step(IF platform = "ios" THEN startListeningIOS(dequeue(Cur), out)
               ELSE startListeningAndroid(dequeue(Cur), out, fin))

RunStopListening ==
  /\ Front("stopListening")
  /\ \E fin \in FinChoices : Step(stopListeningBlock(dequeue(Cur), fin))

RunSetPause ==
  /\ Front("setPause")
  /\ \E ok \in BOOLEAN : Step(setPauseIOS(dequeue(Cur), Head(workQ).arg, ok))

FileOutcomes == {"ok", "invalidFile", "readError"}

RunRecognizeFile ==
  /\ Front("recognizeFile")
  /\ \E out \in FileOutcomes, convOk \in BOOLEAN, t \in Texts, fin \in FinChoices :
       /\ platform = "android" => out # "readError"
       /\ Step(IF platform = "ios"
               THEN recognizeFileIOS(dequeue(Cur), Head(workQ).arg, out, convOk, t)
               ELSE recognizeFileAndroid(dequeue(Cur), Head(workQ).arg, out, fin))

RunStopFileRecognition ==
  /\ Front("stopFileRecognition")
  /\ \E fin \in FinChoices :
       Step(IF platform = "ios" THEN stopFileRecognitionIOS(dequeue(Cur))
            ELSE stopFileRecognitionAndroid(dequeue(Cur), fin))

\* ---- audio and background threads
AudioTap(maxFrames, texts) ==
  /\ platform = "ios"
  /\ audioEngine = "running"
  /\ framesDecoded < maxFrames
  /\ \E convOk \in BOOLEAN, boundary \in BOOLEAN, t \in texts :
       Step(processAudioBuffer(Cur, convOk, boundary, t))

ServiceThread(maxFrames, texts) ==
  /\ platform = "android"
  /\ speechService # "null"
  /\ framesDecoded < maxFrames
  /\ \E boundary \in BOOLEAN, t \in texts :
       Step(serviceFrame(Cur, boundary, t))

ServiceThreadTimeout ==
  /\ platform = "android"
  /\ speechService = "running"
  /\ Step(serviceTimeout(Cur))

\* exceptions the service thread has reported so far
ErrorsReported ==
  Cardinality({i \in 1..Len(mainQ) : mainQ[i].kind = "onError"})
    + Cardinality({i \in 1..Len(events) : events[i].name = "onError"})

ServiceThreadError ==
  /\ platform = "android"
  /\ speechService = "running"
  /\ ErrorsReported < MaxErrors
  /\ Step(serviceError(Cur))

StreamThread(maxFrames, texts) ==
  /\ platform = "android"
  /\ speechStreamService = "running"
  /\ framesDecoded < maxFrames
  /\ \E boundary \in BOOLEAN, t \in texts :
       Step(streamFrame(Cur, boundary, t))

StreamThreadEnd ==
  /\ platform = "android"
  /\ speechStreamService = "running"
  /\ \E t \in Texts : Step(streamEnd(Cur, t))

UnpackThread ==
  /\ unpacking > 0
  /\ \E ok \in BOOLEAN : Step(unpackFinish(Cur, ok))

\* ---- blocks on the main queue
\* iOS: the blocks handleResult, handlePartialResult, handleFinalResult dispatch
MainHandleResult ==
  /\ Main("result")
  /\ Step(handleResultBlock(popMain(Cur), Head(mainQ).arg))

MainHandlePartialResult ==
  /\ Main("partial")
  /\ Step(handlePartialResultBlock(
            [popMain(Cur) EXCEPT !.handledSession = Head(mainQ).sess], Head(mainQ).arg))

MainHandleFinalResult ==
  /\ Main("final")
  /\ Step(handleFinalResultBlock(popMain(Cur), Head(mainQ).arg))

\* Android: the RecognitionListener callbacks the services post
MainOnResult ==
  /\ Main("onResult")
  /\ Step(onResult(popMain(Cur), Head(mainQ).arg))

MainOnPartialResult ==
  /\ Main("onPartialResult")
  /\ Step(onPartialResult(
            [popMain(Cur) EXCEPT !.handledSession = Head(mainQ).sess], Head(mainQ).arg))

MainOnFinalResult ==
  /\ Main("onFinalResult")
  /\ Step(onFinalResult(popMain(Cur), Head(mainQ).arg))

MainOnTimeout ==
  /\ Main("onTimeout")
  /\ Step(onTimeout(popMain(Cur)))

MainOnError ==
  /\ Main("onError")
  /\ Step(onError(popMain(Cur)))

MainUnpackComplete ==
  /\ Main("unpackComplete")
  /\ \E recOk \in BOOLEAN :
       Step(unpackComplete(popMain(Cur), Head(mainQ).arg, recOk))

MainUnpackError ==
  /\ Main("unpackError")
  /\ Step(unpackError(popMain(Cur)))

\* ---- the whole module
Next ==
  \/ CallInitModel(MaxCmds, {NoRate})
  \/ CallReleaseModel(MaxCmds)
  \/ CallStartListening(MaxCmds)
  \/ CallStopListening(MaxCmds)
  \/ CallSetPause(MaxCmds)
  \/ CallRecognizeFile(MaxCmds)
  \/ CallStopFileRecognition(MaxCmds)
  \/ RunInitModel
  \/ RunReleaseModel
  \/ RunStartListening
  \/ RunStopListening
  \/ RunSetPause
  \/ RunRecognizeFile
  \/ RunStopFileRecognition
  \/ AudioTap(MaxFrames, Texts)
  \/ ServiceThread(MaxFrames, Texts)
  \/ StreamThread(MaxFrames, Texts)
  \/ StreamThreadEnd
  \/ UnpackThread
  \/ MainHandleResult
  \/ MainHandlePartialResult
  \/ MainHandleFinalResult
  \/ MainOnResult
  \/ MainOnPartialResult
  \/ MainOnFinalResult
  \/ MainUnpackComplete
  \/ MainUnpackError

Spec == Init /\ [][Next]_vars

\* ---- the live session alone: no file recognition, no release, longer streams
SessionNext ==
  \/ CallInitModel(MaxSessionCmds, {NoRate})
  \/ CallStartListening(MaxSessionCmds)
  \/ CallStopListening(MaxSessionCmds)
  \/ CallSetPause(MaxSessionCmds)
  \/ RunInitModel
  \/ RunStartListening
  \/ RunStopListening
  \/ RunSetPause
  \/ AudioTap(MaxSessionFrames, Texts)
  \/ ServiceThread(MaxSessionFrames, Texts)
  \/ UnpackThread
  \/ MainHandleResult
  \/ MainHandlePartialResult
  \/ MainOnResult
  \/ MainOnPartialResult
  \/ MainOnFinalResult
  \/ MainUnpackComplete
  \/ MainUnpackError

SpecSession == Init /\ [][SessionNext]_vars

\* ---- the control commands alone, with both kinds of config: no audio is
\* captured and no file is recognized; the engine may report its idle timeout
\* or an exception
ConfigNext ==
  \/ CallInitModel(MaxConfigCmds, {NoRate, NarrowbandRate})
  \/ CallReleaseModel(MaxConfigCmds)
  \/ CallStartListening(MaxConfigCmds)
  \/ CallStopListening(MaxConfigCmds)
  \/ RunInitModel
  \/ RunReleaseModel
  \/ RunStartListening
  \/ RunStopListening
  \/ UnpackThread
  \/ ServiceThreadTimeout
  \/ ServiceThreadError
  \/ MainOnFinalResult
  \/ MainOnTimeout
  \/ MainOnError
  \/ MainUnpackComplete
  \/ MainUnpackError

SpecConfig == Init /\ [][ConfigNext]_vars

\* ---- the same under the scheduling of the platform: the serial worker
\* runs the block at the head of its queue, the unpack task ends, and the
\* main queue runs its blocks
WorkerRuns ==
  \/ RunInitModel
  \/ RunReleaseModel
  \/ RunStartListening
  \/ RunStopListening

MainRuns ==
  \/ MainOnFinalResult
  \/ MainOnTimeout
  \/ MainOnError
  \/ MainUnpackComplete
  \/ MainUnpackError

\* a turn of the serial worker: it takes the block at the head of its queue
\* and runs it to its end; every block is total, so a turn is possible
\* exactly when the queue is not empty, and the turns are the steps of
\* WorkerRuns (WorkerTurnsAreBlocks below)
WorkerTurn == workQ # <<>> /\ workQ' = Tail(workQ)

\* WF_vars(WorkerRuns), written out with what enables a turn of the worker
WorkerFair == []<>(workQ = <<>>) \/ []<><<WorkerTurn>>_vars

SpecConfigFair ==
  /\ SpecConfig
  /\ WorkerFair
  /\ WF_vars(UnpackThread)
  /\ WF_vars(MainRuns)

WorkerTurnsAreBlocks == [][WorkerTurn <=> WorkerRuns]_vars
WorkerHasItsBlock ==
  workQ # <<>> =>
    Head(workQ).op \in {"initModel", "releaseModel", "startListening", "stopListening"}

\* ---- the boundary detector alone: a session has been started and the
\* engine reports a given stream of partial texts
DetTexts == {Empty, Space, Yes}
RefStream == <<Empty, Hel, Hello, HelloWorld, Empty>>
Streams ==
  {RefStream} \cup UNION {[1..n -> DetTexts] : n \in 0..MaxStream}

DetInit ==
  /\ platform \in {"ios", "android"}
  /\ model = 1
  /\ recognizer = 2
  /\ liveModels = {1}
  /\ liveRecs = {2}
  /\ isModelInitialized = TRUE
  /\ isListening = TRUE
  /\ sampleRate = DefaultSampleRate
  /\ audioEngine = IF platform = "ios" THEN "running" ELSE "nil"
  /\ speechService = IF platform = "ios" THEN "null" ELSE "running"
  /\ svcRecognizer = IF platform = "ios" THEN 0 ELSE 2
  /\ speechStreamService = "null"
  /\ streamRecognizer = 0
  /\ speechStartDetected = FALSE
  /\ lastPartialResult = Null
  /\ workQ = <<>>
  /\ mainQ = <<>>
  /\ unpacking = 0
  /\ events = <<>>
  /\ settled = <<[op |-> "initModel", code |-> "OK"],
                 [op |-> "startListening", code |-> "OK"]>>
  /\ releaseCalled = FALSE
  /\ lastTransition = "started"
  /\ everInit = TRUE
  /\ issued = 2
  /\ settledCount = 2
  /\ engineOut = <<>>
  /\ flushed = {}
  /\ blockLog = NoLog
  /\ recordPermission = TRUE
  /\ isPaused = FALSE
  /\ session = 1
  /\ handledSession = 0
  /\ releaseDone = FALSE
  /\ stream \in Streams
  /\ pos = 0

\* one captured chunk to which the engine answers the next partial text
DetFrame ==
  /\ pos < Len(stream)
  /\ Commit(IF platform = "ios"
            THEN processAudioBuffer(Cur, TRUE, FALSE, stream[pos + 1])
            ELSE serviceFrame(Cur, FALSE, stream[pos + 1]))
  /\ pos' = pos + 1
  /\ UNCHANGED <<platform, recordPermission, stream>>

DetNext == DetFrame \/ MainHandlePartialResult \/ MainOnPartialResult

SpecDetector == DetInit /\ [][DetNext]_vars

TypeOK ==
  /\ platform \in {"ios", "android"}
  /\ isListening \in BOOLEAN
  /\ isModelInitialized \in BOOLEAN
  /\ issued \in Nat
  /\ Len(settled) <= 2

(* ------------------------------- properties ----------------------------- *)
Last(q) == q[Len(q)]
LastSettled(op, code) ==
  settled # <<>> /\ Last(settled) = [op |-> op, code |-> code]

\* the step runs the worker block of op
IsRun(op) == Front(op) /\ workQ' = Tail(workQ)

\* a capture pipeline is attached
Capturing == audioEngine \in {"running", "paused"} \/ speechService # "null"

Pending(op) == \E i \in 1..Len(workQ) : workQ[i].op = op

BoundaryNames == {"onSpeechStart", "onSpeechEnd"}
BoundaryEvents == SelectSeq(events, LAMBDA e : e.name \in BoundaryNames)

\* C1: once every issued command has completed, isListening is the outcome
\* of the last session transition the worker completed (true after a
\* successful startListening; false after stopListening, releaseModel or a
\* failed start), and after a rejected startListening isListening is false
\* whenever no capture is attached.
C1_IsListeningReflectsLastTransition ==
  /\ workQ = <<>> => (isListening <=> lastTransition = "started")
  /\ (settled # <<>> /\ Last(settled).op = "startListening"
        /\ Last(settled).code # "OK" /\ ~Capturing) => ~isListening

C1_Witness ==
  /\ workQ = <<>>
  /\ Len(settled) = 2
  /\ settled[1] = [op |-> "startListening", code |-> "OK"]
  /\ settled[2].op = "startListening"
  /\ settled[2].code \in {"AUDIO_ENGINE_ERROR", "START_LISTENING_ERROR"}
  /\ ~isListening

\* C2: the releaseModel block always resolves and leaves no model, no
\* recognizer, not listening, not initialized; run on the state a
\* releaseModel has left (it settled last and nothing is held) it resolves
\* again and changes none of the handles, flags or capture state.
C2_ReleaseModelIdempotent ==
  [][IsRun("releaseModel") =>
       /\ LastSettled("releaseModel", "OK")'
       /\ model' = 0 /\ recognizer' = 0
       /\ ~isListening' /\ ~isModelInitialized'
       /\ (LastSettled("releaseModel", "OK") /\ model = 0 /\ recognizer = 0
             /\ ~isModelInitialized) =>
            /\ model' = model /\ recognizer' = recognizer
            /\ isListening' = isListening
            /\ isModelInitialized' = isModelInitialized
            /\ liveModels' = liveModels /\ liveRecs' = liveRecs
            /\ audioEngine' = audioEngine /\ speechService' = speechService]_vars

C2_Witness ==
  /\ everInit
  /\ settled = <<[op |-> "releaseModel", code |-> "OK"],
                 [op |-> "releaseModel", code |-> "OK"]>>
  /\ model = 0 /\ recognizer = 0 /\ ~isListening /\ ~isModelInitialized

\* the boundary rule of the design: update(partialText)
RefUpdate(st, t) ==
  IF ~st.speaking /\ Len(t) > 0
  THEN [speaking |-> TRUE, last |-> t, out |-> Append(st.out, "onSpeechStart")]
  ELSE IF st.speaking /\ Len(t) = 0 /\ Len(st.last) > 0
  THEN [speaking |-> FALSE, last |-> t, out |-> Append(st.out, "onSpeechEnd")]
  ELSE [st EXCEPT !.last = t]

RECURSIVE RefRun(_, _)
RefRun(st, texts) ==
  IF texts = <<>> THEN st ELSE RefRun(RefUpdate(st, Head(texts)), Tail(texts))

RefStart == [speaking |-> FALSE, last |-> Empty, out |-> <<>>]

\* the partial texts of the stream whose blocks have run on the main queue
DeliveredTexts == SubSeq(stream, 1, pos - Len(mainQ))

\* C3: after every delivered partial text the detector is where the
\* reference rule puts it: same speaking flag, same boundary events in the
\* same order, lastPartial the text delivered last; so the stream
\* "", "hel", "hello", "hello world", "" gives one onSpeechStart and then
\* one onSpeechEnd.
C3_DetectorFollowsReferenceRule ==
  LET ref == RefRun(RefStart, DeliveredTexts) IN
  /\ speechStartDetected = ref.speaking
  /\ [i \in 1..Len(BoundaryEvents) |-> BoundaryEvents[i].name] = ref.out
  /\ DeliveredTexts # <<>> => lastPartialResult = ref.last
  /\ (stream = RefStream /\ Len(DeliveredTexts) = Len(stream)) =>
       [i \in 1..Len(BoundaryEvents) |-> BoundaryEvents[i].name]
         = <<"onSpeechStart", "onSpeechEnd">>

\* the engine has reported a non-empty partial text
Heard == \E i \in 1..Len(engineOut) :
           engineOut[i].kind = "partial" /\ Len(engineOut[i].text) > 0

\* C4: while the engine has reported only empty partial texts, no
\* onSpeechStart and no onSpeechEnd has been sent; stopping such a session
\* resolves and leaves isListening false.
C4_SilenceGivesNoBoundaryEvents ==
  ~Heard =>
    /\ BoundaryEvents = <<>>
    /\ LastSettled("stopListening", "OK") => ~isListening

\* C5: the initModel block given an empty modelPath rejects with
\* INVALID_MODEL_PATH and touches neither the handles nor isModelInitialized.
C5_EmptyModelPathRejected ==
  [][(IsRun("initModel") /\ Len(Head(workQ).arg.modelPath) = 0) =>
       /\ LastSettled("initModel", "INVALID_MODEL_PATH")'
       /\ UNCHANGED <<model, recognizer, liveModels, liveRecs, isModelInitialized>>]_vars

C5_Witness ==
  /\ LastSettled("initModel", "INVALID_MODEL_PATH")
  /\ ~everInit /\ ~isModelInitialized /\ model = 0 /\ recognizer = 0

\* C6: the recognizeFile block given a path that does not exist rejects
\* with FILE_NOT_FOUND, makes no decoder call, posts no result and starts
\* or stops no stream service.
C6_MissingFileRejected ==
  [][(IsRun("recognizeFile") /\ ~fileExists(Head(workQ).arg)) =>
       /\ LastSettled("recognizeFile", "FILE_NOT_FOUND")'
       /\ UNCHANGED <<engineOut, mainQ, events, speechStreamService, streamRecognizer>>]_vars

C6_Witness ==
  /\ LastSettled("recognizeFile", "FILE_NOT_FOUND")
  /\ isModelInitialized
  /\ \A i \in 1..Len(events) : events[i].name # "onFinalResult"

\* C7: until some initModel has succeeded, every startListening that
\* settled was rejected with MODEL_NOT_INITIALIZED, none is queued on the
\* worker, no capture is attached and isListening is false.
C7_StartBeforeInitRejected ==
  ~everInit =>
    /\ \A i \in 1..Len(settled) :
         settled[i].op = "startListening" => settled[i].code = "MODEL_NOT_INITIALIZED"
    /\ ~Pending("startListening")
    /\ ~Capturing /\ audioEngine = "nil"
    /\ ~isListening

C7_Witness ==
  /\ ~everInit
  /\ LastSettled("startListening", "MODEL_NOT_INITIALIZED")
  /\ Len(settled) = 2 /\ settled[1].op = "initModel"
  /\ ~isListening

\* C8: once releaseModel has been called and its block has run, and no
\* initModel has succeeded since the call, the session is not listening and
\* a startListening that settled last was rejected with MODEL_NOT_INITIALIZED.
C8_StartAfterReleaseRejected ==
  (releaseCalled /\ ~Pending("releaseModel")) =>
    /\ ~isListening
    /\ (settled # <<>> /\ Last(settled).op = "startListening") =>
         Last(settled).code = "MODEL_NOT_INITIALIZED"

\* the answers of the engine to live chunks, and the events that carry them
IsChunkAnswer(o) == o.kind \in {"partial", "result"}
ChunkAnswers == SelectSeq(engineOut, IsChunkAnswer)
PendingAnswers ==
  Cardinality({i \in 1..Len(mainQ) :
                 mainQ[i].kind \in {"partial", "result", "onPartialResult", "onResult"}})
AnswerEvents ==
  SelectSeq(events, LAMBDA e : e.name \in {"onPartialResult", "onResult"})
AsEvent(o) ==
  [name |-> IF o.kind = "partial" THEN "onPartialResult" ELSE "onResult",
   text |-> o.text]

\* C9: the host receives one onPartialResult{partial: text} or
\* onResult{text: text} per answer of the engine, in the order of the
\* answers, and every onSpeechStart comes right before the onPartialResult
\* with the non-empty text that triggered it; so "", "yes", boundary "yes"
\* ends with onSpeechStart, onPartialResult{"yes"}, onResult{"yes"}.
C9_EventOrderAndPayload ==
  /\ AnswerEvents =
       [i \in 1..(Len(ChunkAnswers) - PendingAnswers) |-> AsEvent(ChunkAnswers[i])]
  /\ \A i \in 1..Len(events) :
       events[i].name = "onSpeechStart" =>
         /\ i < Len(events)
         /\ events[i + 1].name = "onPartialResult"
         /\ Len(events[i + 1].text) > 0

\* the models handed over by an unpack that the module has not taken yet
InFlightModels ==
  {mainQ[i].arg : i \in {j \in 1..Len(mainQ) : mainQ[j].kind = "unpackComplete"}}

\* C10: at most one Model and one Recognizer are allocated and not freed,
\* and an allocated one is the one the module holds (or a model on its way
\* to the module).
C10_AtMostOneModelAndRecognizer ==
  /\ Cardinality(liveModels) <= 1
  /\ Cardinality(liveRecs) <= 1
  /\ liveModels \subseteq ({model} \cup InFlightModels)
  /\ liveRecs \subseteq {recognizer}

\* the step feeds a captured chunk to acceptWaveform
FeedsChunk == Len(ChunkAnswers') > Len(ChunkAnswers)

C12_NoDecodeAfterRelease ==
  [][engineOut' # engineOut => ~releaseDone]_vars

\* the handles the step frees
FreedRecs == liveRecs \ liveRecs'
FreedModels == liveModels \ liveModels'

\* C13: a step that frees a Recognizer or a Model leaves no capture
\* attached: the tap is removed and the engine gone, and the speech service
\* is stopped (it holds no freed Recognizer).
C13_DetachBeforeFree ==
  [][(FreedRecs # {} \/ FreedModels # {}) =>
       /\ audioEngine' = "nil"
       /\ svcRecognizer' \notin FreedRecs
       /\ speechService' # "null" => svcRecognizer' \in liveRecs']_vars

\* the block next on the main queue handles the first partial result of
\* the session startListening started last
FirstPartialOfSessionIsNext ==
  /\ mainQ # <<>>
  /\ Head(mainQ).kind \in {"partial", "onPartialResult"}
  /\ Head(mainQ).sess = session
  /\ handledSession # session

\* C14: when the first partial result of a session is about to be handled,
\* the boundary state is the one startListening reset: not speaking and no
\* last partial, whatever the previous session left on the main queue.
C14_BoundaryStateFreshPerSession ==
  FirstPartialOfSessionIsNext =>
    ~speechStartDetected /\ length(lastPartialResult) = 0

SetPauseSettles ==
  \/ IsRun("setPause")
  \/ /\ platform = "android"
     /\ issued' = issued + 1
     /\ workQ' = workQ
     /\ Last(settled').op = "setPause"

\* C16: setPause resolves only while a session is listening; with no
\* session listening it is rejected with SERVICE_NOT_ACTIVE and leaves the
\* capture as it was; it never changes isListening, and when it resolves the
\* engine / speech service is still there.
C16_SetPauseNeedsActiveSession ==
  [][SetPauseSettles =>
       /\ Last(settled').code = "OK" => isListening
       /\ ~isListening =>
            /\ Last(settled').code = "SERVICE_NOT_ACTIVE"
            /\ UNCHANGED <<audioEngine, speechService>>
       /\ UNCHANGED isListening
       /\ Last(settled').code = "OK" =>
            IF platform = "ios" THEN audioEngine' # "nil"
            ELSE speechService' # "null"]_vars


\* ---- C17
TimeoutHandled ==
  /\ Main("onTimeout")
  /\ mainQ' = Tail(mainQ)

StartRejectedAtCall ==
  /\ issued' = issued + 1
  /\ workQ' = workQ
  /\ Last(settled').op = "startListening"

StartAcceptedAtCall ==
  /\ issued' = issued + 1
  /\ Len(workQ') = Len(workQ) + 1
  /\ Last(workQ').op = "startListening"

\* C18: a startListening call with the model initialized and the microphone
\* permission not granted is rejected with PERMISSION_DENIED; with the model
\* not initialized it is rejected with MODEL_NOT_INITIALIZED whatever the
\* permission is; a rejected call leaves isListening, the capture handles,
\* the boundary state and the model handles as they were.
C18_StartListeningPreconditions ==
  [][(StartRejectedAtCall \/ StartAcceptedAtCall) =>
       /\ ~isModelInitialized =>
            /\ StartRejectedAtCall
            /\ Last(settled').code = "MODEL_NOT_INITIALIZED"
       /\ (isModelInitialized /\ ~recordPermission') =>
            /\ StartRejectedAtCall
            /\ Last(settled').code = "PERMISSION_DENIED"
       /\ StartRejectedAtCall =>
            UNCHANGED <<isListening, audioEngine, speechService, svcRecognizer,
                        speechStreamService, streamRecognizer,
                        speechStartDetected, lastPartialResult,
                        model, recognizer, liveModels, liveRecs,
                        isModelInitialized, sampleRate, mainQ, events>>]_vars

C18_Witness ==
  /\ LastSettled("startListening", "PERMISSION_DENIED")
  /\ isModelInitialized
  /\ ~recordPermission
  /\ isListening


\* ---- C19
StartFailsInSetup ==
  /\ IsRun("startListening")
  /\ Last(settled').code \in
       {"AUDIO_SESSION_ERROR", "AUDIO_ENGINE_ERROR", "START_LISTENING_ERROR"}

\* C19: when startListening fails while the capture is set up, isListening is
\* false afterwards, the Model and Recognizer stay as they were, and no audio
\* engine, tap or speech service of the failed attempt remains attached.
C19_FailedStartLeavesReady ==
  [][StartFailsInSetup =>
       /\ ~isListening'
       /\ UNCHANGED <<model, recognizer, liveModels, liveRecs, isModelInitialized>>
       /\ audioEngine' = "nil"
       /\ speechService' = "null"]_vars

C19_Witness ==
  /\ LastSettled("startListening", "AUDIO_ENGINE_ERROR")
  /\ audioEngine = "created"
  /\ ~isListening
  /\ isModelInitialized


\* ---- C20
\* C20: once a releaseModel has completed, and until an initModel issued
\* after it has run, isModelInitialized is false and no Model or Recognizer
\* is installed: no callback of an earlier initModel brings them back.
C20_ReleasedUntilFreshInit ==
  releaseDone =>
    /\ ~isModelInitialized
    /\ model = 0
    /\ recognizer = 0

C20_Witness ==
  /\ releaseDone
  /\ LastSettled("initModel", "OK")
  /\ isModelInitialized
  /\ settled[1] = [op |-> "releaseModel", code |-> "OK"]

\* ---- C21
\* ---- the JavaScript class in front of the native module
Resolved(value) == [kind |-> "resolved", value |-> value]
Rejected(code) == [kind |-> "rejected", value |-> code]

\* what the native promise of a settled command did
NativePromise(s) ==
  IF s.code = "OK" THEN Resolved(TRUE) ELSE Rejected(s.code)

\* ReactNativeVoiceVosk.initModel: try { return await native } catch { return false }
ReactNativeVoiceVoskInitModel(native) ==
  IF native.kind = "rejected" THEN Resolved(FALSE) ELSE native

\* the other methods of the class return the native promise
ReactNativeVoiceVoskForward(native) == native

\* what the caller of the public method observes
PublicPromise(s) ==
  IF s.op = "initModel"
  THEN ReactNativeVoiceVoskInitModel(NativePromise(s))
  ELSE ReactNativeVoiceVoskForward(NativePromise(s))

\* C21: every command that failed is observed by its caller as a rejection
\* carrying the error code; in particular the caller of the public initModel
\* observes a rejection when the native initModel failed.
C21_FailuresAreRejections ==
  \A i \in 1..Len(settled) :
    settled[i].code # "OK" =>
      PublicPromise(settled[i]) = Rejected(settled[i].code)

C21_Witness ==
  /\ settled # <<>>
  /\ Last(settled).op = "initModel"
  /\ Last(settled).code \in {"INVALID_MODEL_PATH", "MODEL_NOT_FOUND",
                             "MODEL_LOAD_FAILED", "RECOGNIZER_INIT_FAILED"}
  /\ PublicPromise(Last(settled)) = Resolved(FALSE)

\* ---- C22
BindsRecognizerWithoutRate ==
  /\ IsRun("initModel")
  /\ Head(workQ).arg.sampleRate = NoRate
  /\ recognizer' # 0
  /\ recognizer' # recognizer

\* C22: an initModel whose config has no sampleRate binds its Recognizer at
\* 16000 Hz, and getSampleRate answers 16000 afterwards, whatever an earlier
\* initModel configured.
C22_OmittedSampleRateIsDefault ==
  [][BindsRecognizerWithoutRate => sampleRate' = DefaultSampleRate]_vars

\* ---- C23
Handles ==
  <<model, recognizer, isModelInitialized, isListening,
    audioEngine, speechService, speechStreamService>>

\* a block of the serial worker runs
OnWorker == workQ # <<>> /\ workQ' = Tail(workQ)

\* the engine's own thread ending is not a write of the module
EngineThreadEnds ==
  \/ speechStreamService = "running" /\ speechStreamService' = "finished"
  \/ speechService = "running" /\ speechService' = "expired"

\* C23: every change the module makes to the Model, the Recognizer, the
\* session handles, isModelInitialized or isListening is made by a block on
\* the single worker, completion callbacks included.
C23_HandlesChangeOnWorkerOnly ==
  [][(Handles' # Handles /\ ~EngineThreadEnds) => OnWorker]_vars

\* ---- C24
\* the recognizeFile block of iOS decodes the file
FileBlockDecodes ==
  /\ platform = "ios"
  /\ IsRun("recognizeFile")
  /\ engineOut' # engineOut

\* the live capture is feeding the Recognizer the file recognition uses
LiveFeedsFileRecognizer ==
  IF platform = "ios"
  THEN audioEngine = "running" /\ recognizer # 0
  ELSE /\ speechService = "running"
       /\ speechStreamService = "running"
       /\ svcRecognizer = streamRecognizer

\* C24: a file recognition and a live session never decode on the same
\* Recognizer at the same time: the file is not decoded while the capture
\* feeds that Recognizer, and the two services never run on one handle.
C24_FileAndLiveNeverShareRecognizer ==
  [][(FileBlockDecodes => ~LiveFeedsFileRecognizer)
       /\ (platform = "android" => ~LiveFeedsFileRecognizer')]_vars

C24_Witness ==
  /\ LiveFeedsFileRecognizer
  /\ isListening
  /\ LastSettled("recognizeFile", "OK")

\* ---- C25
\* the live capture or the stream thread feeds a chunk to a Recognizer on
\* which the final result was fetched before
FeedsFlushed ==
  /\ FeedsChunk
  /\ Last(engineOut').rec \in flushed

\* the iOS file block feeds the file to a Recognizer on which the final
\* result was fetched before
FileFeedsFlushed ==
  /\ FileBlockDecodes
  /\ recognizer \in flushed

\* C25: once the final result has been fetched on a Recognizer, no audio is
\* fed to that Recognizer again.
C25_NoFeedAfterFinalResult ==
  [][~FeedsFlushed /\ ~FileFeedsFlushed]_vars

C25_Witness ==
  /\ engineOut # <<>>
  /\ Last(engineOut).kind # "final"
  /\ Last(engineOut).rec \in flushed

\* ---- C26
NewEvents == SubSeq(events', Len(events) + 1, Len(events'))
CountNew(name) ==
  Cardinality({i \in 1..Len(NewEvents) : NewEvents[i].name = name})

ResultBlockRuns ==
  /\ Main("result") \/ Main("onResult")
  /\ mainQ' = Tail(mainQ)

PartialBlockRuns ==
  /\ Main("partial") \/ Main("onPartialResult")
  /\ mainQ' = Tail(mainQ)

\* the chunk's answer is handed to exactly one block, the one of its branch
HandsAnswerToItsBranch ==
  /\ Len(engineOut') = Len(engineOut) + 1
  /\ Len(mainQ') = Len(mainQ) + 1
  /\ SubSeq(mainQ', 1, Len(mainQ)) = mainQ
  /\ IF Last(engineOut').kind = "result"
     THEN Last(mainQ').kind \in {"result", "onResult"}
     ELSE Last(mainQ').kind \in {"partial", "onPartialResult"}
  /\ UNCHANGED <<events, speechStartDetected, lastPartialResult>>

\* C26: for every chunk the live path feeds to the decoder, an answer "true"
\* of acceptWaveform leads to result() and to exactly one onResult and no
\* onPartialResult, an answer "false" to partialResult() and to exactly one
\* onPartialResult and no onResult; only the partial branch touches the
\* boundary detector.
C26_OneEventPerChunk ==
  [][(FeedsChunk => HandsAnswerToItsBranch)
       /\ (ResultBlockRuns =>
             (/\ CountNew("onResult") = 1
              /\ Len(NewEvents) = 1
              /\ UNCHANGED <<speechStartDetected, lastPartialResult>>))
       /\ (PartialBlockRuns =>
             (/\ CountNew("onPartialResult") = 1
              /\ CountNew("onResult") = 0))]_vars

C26_Witness ==
  /\ isListening
  /\ mainQ = <<>>
  /\ Cardinality({i \in 1..Len(engineOut) : engineOut[i].kind = "result"}) = 1
  /\ Cardinality({i \in 1..Len(events) : events[i].name = "onResult"}) = 1
  /\ Cardinality({i \in 1..Len(engineOut) : engineOut[i].kind = "partial"}) = 1
  /\ Cardinality({i \in 1..Len(events) : events[i].name = "onPartialResult"}) = 1

\* ---- C27
RecognizeFileResolves ==
  /\ IsRun("recognizeFile")
  /\ Last(settled').code = "OK"

\* the block has decoded the file and handed its final result on (iOS), or
\* has started the stream service that will (Android)
FileDecodeUnderWay ==
  IF platform = "ios"
  THEN /\ Len(engineOut') = Len(engineOut) + 1
       /\ Last(engineOut').kind = "final"
       /\ Len(mainQ') = Len(mainQ) + 1
       /\ Last(mainQ').kind = "final"
  ELSE /\ speechStreamService' = "running"
       /\ streamRecognizer' # 0

FinalBlockRuns ==
  /\ Main("final") \/ Main("onFinalResult")
  /\ mainQ' = Tail(mainQ)

\* C27: a recognizeFile that resolves has fed the file to the decoder and
\* fetched the final result, and one onFinalResult event follows for it.
C27_ResolvedFileGivesFinalResult ==
  [][(RecognizeFileResolves => FileDecodeUnderWay)
       /\ (FinalBlockRuns =>
             (CountNew("onFinalResult") = 1 /\ Len(NewEvents) = 1))]_vars

C27_Witness ==
  /\ platform = "ios"
  /\ LastSettled("recognizeFile", "OK")
  /\ mainQ = <<>>
  /\ engineOut = <<>>
  /\ events = <<>>
  /\ recognizer # 0

\* ---- C28
\* a chunk whose conversion fails leaves everything as it is
DropsChunk(boundary, t) ==
  processAudioBuffer(Cur, FALSE, boundary, t) = Cur

\* the chunk after it, converted, is fed to the decoder
ProcessesNextChunk(boundary, t) ==
  LET r == processAudioBuffer(processAudioBuffer(Cur, FALSE, boundary, t),
                              TRUE, boundary, t)
  IN /\ Len(r.engineOut) = Len(engineOut) + 1
     /\ Len(r.mainQ) = Len(mainQ) + 1

\* C28: in a live session a captured chunk whose format conversion fails is
\* dropped: no decoder call, no event, isListening and the boundary state as
\* before; the chunks after it are still processed.
C28_ConversionFailureDropsChunk ==
  (platform = "ios" /\ audioEngine = "running") =>
    \A boundary \in BOOLEAN, t \in Texts :
      /\ DropsChunk(boundary, t)
      /\ recognizer # 0 => ProcessesNextChunk(boundary, t)

C28_Witness ==
  /\ platform = "ios"
  /\ audioEngine = "running"
  /\ isListening
  /\ recognizer # 0
  /\ speechStartDetected
  /\ framesDecoded = 1
  /\ mainQ = <<>>

\* ---- C29
ErrorHandled ==
  /\ Main("onError")
  /\ mainQ' = Tail(mainQ)

\* what the tap block has done with a fault carries an onError
CarriesOnError(r) ==
  \/ Len(r.events) > Len(events) /\ Last(r.events).name = "onError"
  \/ Len(r.mainQ) > Len(mainQ) /\ Last(r.mainQ).kind = "onError"

\* a conversion fault in the middle of the stream is surfaced
SurfacesConversionFault ==
  (platform = "ios" /\ audioEngine = "running" /\ recognizer # 0) =>
    \A boundary \in BOOLEAN, t \in Texts :
      CarriesOnError(processAudioBuffer(Cur, FALSE, boundary, t))

\* C29: an error in the steady-state processing of a running session is
\* surfaced as an onError event and is not fatal: handling it changes
\* neither isListening nor the capture handles nor the Model/Recognizer.
C29_ErrorsSurfaceAndAreNotFatal ==
  [][(ErrorHandled =>
        (/\ events' = Append(events, [name |-> "onError", text |-> Null])
         /\ UNCHANGED <<isListening, audioEngine, speechService, svcRecognizer,
                        speechStreamService, streamRecognizer, model, recognizer,
                        liveModels, liveRecs, isModelInitialized>>))
       /\ SurfacesConversionFault]_vars

C29_Witness ==
  /\ platform = "android"
  /\ events # <<>>
  /\ Last(events).name = "onError"
  /\ isListening
  /\ speechService = "running"

\* ---- C30
\* the order releaseModel is to follow, for the handles it finds
ReleaseOrder ==
  <<"session">>
    \o (IF recognizer # 0 THEN <<"recognizer">> ELSE <<>>)
    \o (IF model # 0 THEN <<"model">> ELSE <<>>)
    \o <<"flag", "resolve">>

\* C30: releaseModel first tears the live session down, then frees the
\* Recognizer, then the Model, then clears isModelInitialized, and resolves
\* last.
C30_ReleaseOrder ==
  [][IsRun("releaseModel") =>
       (/\ blockLog' = ReleaseOrder
        /\ ~isListening'
        /\ audioEngine' = "nil"
        /\ speechService' = "null"
        /\ recognizer' = 0
        /\ model' = 0
        /\ liveRecs' = liveRecs \ {recognizer}
        /\ liveModels' = liveModels \ {model}
        /\ ~isModelInitialized'
        /\ LastSettled("releaseModel", "OK")')]_vars

C30_Witness ==
  /\ blockLog = <<"session", "recognizer", "model", "flag", "resolve">>
  /\ settled = <<[op |-> "startListening", code |-> "OK"],
                 [op |-> "releaseModel", code |-> "OK"]>>
  /\ ~isListening
  /\ liveRecs = {}
  /\ liveModels = {}

\* ---- C31
StartSucceeds ==
  /\ IsRun("startListening")
  /\ Last(settled').code = "OK"

\* one pipeline is attached, started by this block, and feeds the
\* module's Recognizer
OnePipelineFeeding ==
  IF platform = "ios"
  THEN audioEngine' = "running"
  ELSE speechService' = "running" /\ svcRecognizer' = recognizer'

\* C31: startListening tears the earlier session down before it starts the
\* new one, so that at most one capture pipeline is attached and feeds the
\* Recognizer, whatever startListening calls came before.
C31_OnePipelinePerSession ==
  [][(IsRun("startListening") =>
        (/\ blockLog' # <<>>
         /\ Head(blockLog') = "session"
         /\ \A i \in 2..Len(blockLog') : blockLog'[i] = "capture"
         /\ Len(blockLog') <= 2))
       /\ (StartSucceeds =>
             (blockLog' = <<"session", "capture">> /\ OnePipelineFeeding))]_vars

C31_Witness ==
  /\ settled = <<[op |-> "startListening", code |-> "OK"],
                 [op |-> "startListening", code |-> "OK"]>>
  /\ blockLog = <<"session", "capture">>
  /\ session = 2
  /\ isListening

\* ---- C32
\* commands whose promise is still to be settled: blocks waiting on the
\* worker, unpack tasks in flight, unpack callbacks waiting on the main queue
Outstanding ==
  Len(workQ) + unpacking
    + Cardinality({i \in 1..Len(mainQ) :
                     mainQ[i].kind \in {"unpackComplete", "unpackError"}})

SettledExactlyOnce == settledCount + Outstanding = issued

InitModelSucceeds ==
  /\ settledCount' = settledCount + 1
  /\ Last(settled') = [op |-> "initModel", code |-> "OK"]

\* C33: while a model stays initialized, getSampleRate answers the rate the
\* bound Recognizer was constructed with: only the step that constructs a
\* Recognizer changes sampleRate, and an initModel that fails leaves it alone.
C33_SampleRateIsTheRecognizersRate ==
  [][(isModelInitialized /\ isModelInitialized' /\ ~InitModelSucceeds)
       => sampleRate' = sampleRate]_vars

C33_Witness ==
  /\ isModelInitialized
  /\ recognizer # 0
  /\ sampleRate = NarrowbandRate
  /\ Len(settled) = 2
  /\ settled[1] = [op |-> "initModel", code |-> "OK"]
  /\ settled[2] = [op |-> "initModel", code |-> "INVALID_MODEL_PATH"]

\* ---- C34
\* C34: in every reachable state a module that is listening has its model
\* initialized and holds a Recognizer.
C34_ListeningHasAModel ==
  isListening => (isModelInitialized /\ recognizer # 0)

C34_Witness ==
  /\ isListening
  /\ ~isModelInitialized
  /\ recognizer = 0
  /\ LastSettled("initModel", "MODEL_NOT_FOUND")

\* ---- C35
SessionEvents == {"onPartialResult", "onResult", "onSpeechStart", "onSpeechEnd"}

\* the last session transition the worker completed is a stopListening or a
\* releaseModel, and this step is not the next startListening block
SessionIsStopped ==
  /\ lastTransition \in {"stopped", "released"}
  /\ ~IsRun("startListening")

\* C35: once stopListening or releaseModel has resolved, no onPartialResult,
\* onResult, onSpeechStart or onSpeechEnd is delivered and the boundary state
\* stays as the stop left it, until the next startListening block runs.
C35_NothingAfterStop ==
  [][SessionIsStopped =>
       (/\ \A i \in 1..Len(NewEvents) : NewEvents[i].name \notin SessionEvents
        /\ UNCHANGED <<speechStartDetected, lastPartialResult>>)]_vars

C35_Witness ==
  /\ LastSettled("stopListening", "OK")
  /\ lastTransition = "stopped"
  /\ ~isListening
  /\ speechStartDetected
  /\ events # <<>>
  /\ Last(events).name = "onPartialResult"

\* ---- C36
Alternates(b) ==
  \A i \in 1..Len(b) :
    b[i].name = IF i % 2 = 1 THEN "onSpeechStart" ELSE "onSpeechEnd"

\* C36: while a single session has been started, all events are its own:
\* its boundary events alternate, the first being onSpeechStart, and the
\* stopListening block sends no onSpeechEnd.
C36_BoundaryEventsAlternate ==
  /\ [](session <= 1 => Alternates(BoundaryEvents))
  /\ [][IsRun("stopListening") => CountNew("onSpeechEnd") = 0]_vars

C36_Witness ==
  /\ session = 1
  /\ LastSettled("stopListening", "OK")
  /\ Len(BoundaryEvents) = 2
  /\ BoundaryEvents[1].name = "onSpeechStart"
  /\ BoundaryEvents[2].name = "onSpeechStart"

\* ---- C37
\* the 'lastPartial non-empty' conjunct of the speech-end condition
LastPartialNonEmpty ==
  IF platform = "ios" THEN length(lastPartialResult) > 0
  ELSE lastPartialResult # Null /\ isNotBlank(lastPartialResult)

\* the main queue handles a partial whose text is empty while speaking
EmptyPartialWhileSpeaking ==
  /\ PartialBlockRuns
  /\ speechStartDetected
  /\ parseJSONString(Head(mainQ).arg, "partial") = Empty

\* C37: between detector updates, speaking implies a non-empty lastPartial,
\* and an empty partial handled while speaking sends onSpeechEnd.
C37_EmptyPartialEndsSpeech ==
  /\ [](speechStartDetected => LastPartialNonEmpty)
  /\ [][EmptyPartialWhileSpeaking =>
          (CountNew("onSpeechEnd") = 1 /\ ~speechStartDetected')]_vars

C37_Witness ==
  /\ platform = "ios"
  /\ stream = RefStream
  /\ pos = Len(stream)
  /\ mainQ = <<>>
  /\ ~speechStartDetected
  /\ lastPartialResult = Empty
  /\ Len(BoundaryEvents) = 2
  /\ BoundaryEvents[2].name = "onSpeechEnd"

\* ---- C38
\* what the main queue of platform p does with the engine's partial answers
\* to texts, one block per answer, from the state r
RECURSIVE HandlePartials(_, _, _)
HandlePartials(p, r, texts) ==
  IF texts = <<>> THEN r
  ELSE HandlePartials(p,
                      IF p = "ios"
                      THEN handlePartialResultBlock(r, PartialJSON(Head(texts)))
                      ELSE onPartialResult(r, PartialJSON(Head(texts))),
                      Tail(texts))

\* the state startListening leaves the detector and the event list in
SessionStart ==
  [Cur EXCEPT !.events = <<>>, !.speechStartDetected = FALSE,
              !.lastPartialResult = Null]

EventsOn(p, texts) == HandlePartials(p, SessionStart, texts).events

OtherPlatform == IF platform = "ios" THEN "android" ELSE "ios"

\* the events of the session are the ones its platform's handlers give for
\* the engine answers delivered so far
EventsAreThePlatforms == events = EventsOn(platform, DeliveredTexts)

\* C38: for the same engine answers the other platform sends the same
\* events, in the same order and with the same payload text.
C38_PlatformsSendTheSameEvents ==
  events = EventsOn(OtherPlatform, DeliveredTexts)

C38_Witness ==
  /\ platform = "android"
  /\ stream = RefStream
  /\ DeliveredTexts = stream
  /\ events # EventsOn("ios", stream)
  /\ events[1].name = "onSpeechStart"
  /\ events[2] = [name |-> "onPartialResult", text |-> PartialJSON(Empty)]

=============================================================================
